---------------------------- MODULE Spec2Model ----------------------------
(***************************************************************************)
(* A model of src/src/Quaternion.js: the Quaternion constructor, its       *)
(* static factories and its prototype methods, driven by a client that     *)
(* calls them on the objects of a heap.                                    *)
(*                                                                         *)
(* JavaScript values are records tagged by "t".  A finite number is an     *)
(* exact rational n/d in lowest terms (d > 0): the model computes what the *)
(* code's formulas compute over the reals, and leaves the rounding of      *)
(* IEEE doubles out.  Math.sqrt, Math.acos and Math.sin are exact on the   *)
(* inputs whose result is rational, and the actions that call them are     *)
(* enabled on those inputs only.  rotationRadians, rotationDegrees and     *)
(* random, which need Vec3's normalize and random, are not modelled.       *)
(***************************************************************************)
EXTENDS Integers, Sequences, FiniteSets

VARIABLES heap, last

vars == <<heap, last>>

----------------------------------------------------------------------------
(* JavaScript values *)

Undef == [t |-> "undefined"]
Null == [t |-> "null"]
NaN == [t |-> "NaN"]
Bool(b) == [t |-> "boolean", b |-> b]
Ref(i) == [t |-> "ref", id |-> i]

IAbs(i) == IF i < 0 THEN -i ELSE i

RECURSIVE GCD(_, _)
GCD(a, b) == IF b = 0 THEN a ELSE GCD(b, a % b)

(* the number n/d, d # 0, in lowest terms with a positive denominator *)
Num(n, d) ==
    LET g == GCD(IAbs(n), IAbs(d))
        s == IF d < 0 THEN -1 ELSE 1
    IN [t |-> "num", n |-> s * (n \div g), d |-> s * (d \div g)]

Int2Num(i) == [t |-> "num", n |-> i, d |-> 1]
Zero == Int2Num(0)
One == Int2Num(1)
Two == Int2Num(2)
Half == Num(1, 2)

IsNum(v) == v.t = "num"

(* ToNumber of a primitive: null is 0, undefined is NaN *)
ToNumber(v) == IF v.t = "num" THEN v ELSE IF v.t = "null" THEN Zero ELSE NaN

NumAdd(a, b) ==
    LET x == ToNumber(a)
        y == ToNumber(b)
    IN IF ~(IsNum(x) /\ IsNum(y)) THEN NaN
       ELSE LET g == GCD(x.d, y.d)
            IN Num(x.n * (y.d \div g) + y.n * (x.d \div g), (x.d \div g) * y.d)

NumNeg(a) ==
    LET x == ToNumber(a)
    IN IF IsNum(x) THEN [t |-> "num", n |-> -x.n, d |-> x.d] ELSE NaN

NumSub(a, b) == NumAdd(a, NumNeg(b))

NumMul(a, b) ==
    LET x == ToNumber(a)
        y == ToNumber(b)
    IN IF ~(IsNum(x) /\ IsNum(y)) THEN NaN
       ELSE LET g1 == GCD(IAbs(x.n), y.d)
                g2 == GCD(IAbs(y.n), x.d)
            IN Num((x.n \div g1) * (y.n \div g2), (x.d \div g2) * (y.d \div g1))

(* x / 0 is not a finite number: NaN for 0/0, an infinity otherwise *)
NumDiv(a, b) ==
    LET x == ToNumber(a)
        y == ToNumber(b)
    IN IF ~(IsNum(x) /\ IsNum(y)) THEN NaN
       ELSE IF y.n = 0
            THEN IF x.n = 0 THEN NaN
                 ELSE [t |-> "Infinity", s |-> IF x.n < 0 THEN -1 ELSE 1]
            ELSE NumMul(x, Num(y.d, y.n))

(* a comparison with NaN is false *)
NumLe(a, b) ==
    LET x == ToNumber(a)
        y == ToNumber(b)
    IN /\ IsNum(x) /\ IsNum(y)
       /\ LET g == GCD(x.d, y.d)
          IN x.n * (y.d \div g) <= y.n * (x.d \div g)

NumLt(a, b) ==
    LET x == ToNumber(a)
        y == ToNumber(b)
    IN /\ IsNum(x) /\ IsNum(y)
       /\ LET g == GCD(x.d, y.d)
          IN x.n * (y.d \div g) < y.n * (x.d \div g)

NumGe(a, b) == NumLe(b, a)

(* Math.abs *)
MathAbs(a) ==
    LET x == ToNumber(a)
    IN IF IsNum(x) THEN [t |-> "num", n |-> IAbs(x.n), d |-> x.d] ELSE NaN

(* a === b on primitives: NaN equals nothing *)
StrictEq(a, b) == a.t # "NaN" /\ a = b

(* ToBoolean: undefined, null, NaN and 0 are falsy *)
Truthy(v) == ~(v.t \in {"undefined", "null", "NaN"} \/ (v.t = "num" /\ v.n = 0))

(* a || b *)
Or(a, b) == IF Truthy(a) THEN a ELSE b

(* floor of the square root of n >= 0, by bisection on lo..hi *)
RECURSIVE IsqrtIn(_, _, _)
IsqrtIn(n, lo, hi) ==
    IF lo >= hi THEN lo
    ELSE LET mid == (lo + hi + 1) \div 2
         IN IF mid * mid <= n THEN IsqrtIn(n, mid, hi) ELSE IsqrtIn(n, lo, mid - 1)

(* 46340 is the largest root of a number the model checker's integers hold *)
Isqrt(n) == IsqrtIn(n, 0, IF n < 46340 THEN n ELSE 46340)

IsSquare(n) == n >= 0 /\ Isqrt(n) * Isqrt(n) = n

(* the numbers whose square root is rational *)
HasSqrt(a) == IsNum(a) /\ IsSquare(a.n) /\ IsSquare(a.d)

(* Math.sqrt, exact where HasSqrt; NaN of a negative number or of NaN *)
MathSqrt(a) ==
    LET x == ToNumber(a)
    IN IF ~IsNum(x) \/ x.n < 0 THEN NaN ELSE Num(Isqrt(x.n), Isqrt(x.d))

----------------------------------------------------------------------------
(* Arguments that are plain JavaScript objects: arrays and records.  An    *)
(* object is its properties w, x, y, z and its indexed elements 0..3; an   *)
(* absent property reads as undefined, as in JavaScript.                   *)

Keys == {"w", "x", "y", "z", "0", "1", "2", "3"}

Obj(isArray, props) == [t |-> "object", array |-> isArray, props |-> props]

(* a Quaternion object: its four fields *)
Fields(w, x, y, z) == [t |-> "Quaternion", w |-> w, x |-> x, y |-> y, z |-> z]

(* argument[k], argument.k: a primitive number has no such property;       *)
(* reading a property of null or undefined throws (see Quaternion)         *)
Get(v, k) ==
    IF v.t = "object" THEN v.props[k]
    ELSE IF v.t = "Quaternion" /\ k \in {"w", "x", "y", "z"} THEN v[k]
    ELSE Undef

(* that instanceof Array *)
InstanceofArray(v) == v.t = "object" /\ v.array

Throws == [threw |-> TRUE, obj |-> Undef]
Returns(o) == [threw |-> FALSE, obj |-> o]

(* the constructor with w defaulted as x, y and z are: by || *)
Quaternion_FalsyW(args) ==
    IF Len(args) = 1
    THEN LET argument == args[1]
         IN IF argument.t \in {"undefined", "null"} THEN Throws
            ELSE Returns(Fields(
                     Or(Or(Get(argument, "w"), Get(argument, "0")), One),
                     Or(Or(Get(argument, "x"), Get(argument, "1")), Zero),
                     Or(Or(Get(argument, "y"), Get(argument, "2")), Zero),
                     Or(Or(Get(argument, "z"), Get(argument, "3")), Zero)))
    ELSE IF Len(args) = 4
         THEN Returns(Fields(args[1], args[2], args[3], args[4]))
         ELSE Returns(Fields(One, Zero, Zero, Zero))

(* new Quaternion(...args): the new object, or a TypeError thrown by       *)
(* argument.w when the single argument is null or undefined                *)
Quaternion(args) ==
    IF Len(args) = 1
    THEN LET argument == args[1]
         IN IF argument.t \in {"undefined", "null"} THEN Throws
            ELSE Returns(Fields(
                     IF Get(argument, "w").t # "undefined" THEN Get(argument, "w")
                     ELSE IF Get(argument, "0").t # "undefined" THEN Get(argument, "0")
                     ELSE One,
                     Or(Or(Get(argument, "x"), Get(argument, "1")), Zero),
                     Or(Or(Get(argument, "y"), Get(argument, "2")), Zero),
                     Or(Or(Get(argument, "z"), Get(argument, "3")), Zero)))
    ELSE IF Len(args) = 4
         THEN Returns(Fields(args[1], args[2], args[3], args[4]))
         ELSE Returns(Fields(One, Zero, Zero, Zero))

(* new Quaternion(...) where it returns *)
New(args) == Quaternion(args).obj

(* Quaternion.identity() *)
identity == New(<<One, Zero, Zero, Zero>>)

----------------------------------------------------------------------------
(* The prototype methods, on the fields of their receiver and arguments *)

conjugate(this) == New(<<this.w, NumNeg(this.x), NumNeg(this.y), NumNeg(this.z)>>)

inverse(this) == conjugate(this)

(* that = ( that instanceof Array ) ? new Quaternion( that ) : that *)
AsQuaternion(that) == IF InstanceofArray(that) THEN New(<<that>>) ELSE that

multW(this, that) ==
    NumSub(NumSub(NumSub(NumMul(that.w, this.w), NumMul(that.x, this.x)),
                  NumMul(that.y, this.y)), NumMul(that.z, this.z))

(* x with the sign of its second cross term flipped *)
multX_CrossSign(this, that) ==
    NumAdd(NumAdd(NumAdd(NumMul(this.y, that.z), NumMul(this.z, that.y)),
                  NumMul(this.w, that.x)), NumMul(this.x, that.w))

(* x with that.x written for that.w in its last term *)
multX_LastTerm(this, that) ==
    NumAdd(NumAdd(NumSub(NumMul(this.y, that.z), NumMul(this.z, that.y)),
                  NumMul(this.w, that.x)), NumMul(this.x, that.x))

multX(this, that) ==
    NumAdd(NumAdd(NumSub(NumMul(this.y, that.z), NumMul(this.z, that.y)),
                  NumMul(this.w, that.x)), NumMul(this.x, that.w))

multY(this, that) ==
    NumAdd(NumAdd(NumSub(NumMul(this.z, that.x), NumMul(this.x, that.z)),
                  NumMul(this.w, that.y)), NumMul(this.y, that.w))

multZ(this, that) ==
    NumAdd(NumAdd(NumSub(NumMul(this.x, that.y), NumMul(this.y, that.x)),
                  NumMul(this.w, that.z)), NumMul(this.z, that.w))

mult(this, that0) ==
    LET that == AsQuaternion(that0)
    IN New(<<multW(this, that), multX(this, that), multY(this, that), multZ(this, that)>>)

(* new Vec3( x, y, z ) *)
Vec3(x, y, z) == [t |-> "Vec3", x |-> x, y |-> y, z |-> z]

(* new Mat33( [ nine numbers ] ) *)
Mat33(data) == [t |-> "Mat33", data |-> data]

(* that is a Vec3; an array would first go through Vec3's constructor,      *)
(* which is no part of this file                                           *)
rotate(this, that) ==
    LET vq == New(<<Zero, that.x, that.y, that.z>>)
        r == mult(mult(this, vq), inverse(this))
    IN Vec3(r.x, r.y, r.z)

matrix(this) ==
    LET xx == NumMul(this.x, this.x)
        yy == NumMul(this.y, this.y)
        zz == NumMul(this.z, this.z)
        xy == NumMul(this.x, this.y)
        xz == NumMul(this.x, this.z)
        xw == NumMul(this.x, this.w)
        yz == NumMul(this.y, this.z)
        yw == NumMul(this.y, this.w)
        zw == NumMul(this.z, this.w)
        T(a) == NumMul(Two, a)
    IN Mat33(<<
        NumSub(NumSub(One, T(yy)), T(zz)), NumAdd(T(xy), T(zw)), NumSub(T(xz), T(yw)),
        NumSub(T(xy), T(zw)), NumSub(NumSub(One, T(xx)), T(zz)), NumAdd(T(yz), T(xw)),
        NumAdd(T(xz), T(yw)), NumSub(T(yz), T(xw)), NumSub(NumSub(One, T(xx)), T(yy)) >>)



(* Math.acos( c ) for -1 < c < 1, kept as k * acos(c) with k = 1 *)
MathAcos(c) == [t |-> "angle", k |-> One, cos |-> c]

(* s * halfTheta *)
AngleTimes(s, angle) == [t |-> "angle", k |-> NumMul(s, angle.k), cos |-> angle.cos]

(* a * b is a square, for a, b >= 0: a/g and b/g, g their greatest common  *)
(* divisor, are coprime, so that both are squares                          *)
ProductIsSquare(a, b) ==
    LET g == GCD(a, b)
    IN g = 0 \/ (IsSquare(a \div g) /\ IsSquare(b \div g))

(* the root of such a product *)
RootOfProduct(a, b) ==
    LET g == GCD(a, b)
    IN IF g = 0 THEN 0 ELSE g * Isqrt(a \div g) * Isqrt(b \div g)

(* Math.sqrt( 1 - c*c ) for |c| <= 1, as sqrt((d-n)(d+n))/d for c = n/d:   *)
(* the same number, computed without the square of d                       *)
SqrtOneMinusSquare(c) == Num(RootOfProduct(c.d - c.n, c.d + c.n), c.d)

(* 1 - c*c has a rational root *)
OneMinusSquareHasSqrt(c) == ProductIsSquare(c.d - c.n, c.d + c.n)

(* Math.sin( k * acos(c) ) for k = 0, 1/2 and 1: 0, sqrt((1-c)/2) and      *)
(* sqrt(1 - c*c), acos(c) being in [0, pi]                                 *)
MathSin(angle) ==
    IF angle.k = Zero THEN Zero
    ELSE IF angle.k = One THEN SqrtOneMinusSquare(angle.cos)
    ELSE MathSqrt(NumMul(NumSub(One, angle.cos), Half))

(* the inputs on which the model's sqrt, acos and sin are exact *)
SinExact(angle) ==
    IF angle.k = Zero THEN TRUE
    ELSE IF angle.k = One THEN OneMinusSquareHasSqrt(angle.cos)
    ELSE angle.k = Half /\ HasSqrt(NumMul(NumSub(One, angle.cos), Half))

Dot(from, to) ==
    NumAdd(NumAdd(NumAdd(NumMul(from.w, to.w), NumMul(from.x, to.x)),
                  NumMul(from.y, to.y)), NumMul(from.z, to.z))

(* the 0.001 of slerp's test of sinHalfTheta *)
SinEpsilon == Num(1, 1000)

slerp(from, to, t) ==
    LET cosHalfTheta == Dot(from, to)
    IN IF NumGe(MathAbs(cosHalfTheta), One)
       THEN New(<<from.w, from.x, from.y, from.z>>)
       ELSE LET halfTheta == MathAcos(cosHalfTheta)
                sinHalfTheta == SqrtOneMinusSquare(cosHalfTheta)
            IN IF NumLt(MathAbs(sinHalfTheta), SinEpsilon)
               THEN New(<<NumAdd(NumMul(from.w, Half), NumMul(to.w, Half)),
                          NumAdd(NumMul(from.x, Half), NumMul(to.x, Half)),
                          NumAdd(NumMul(from.y, Half), NumMul(to.y, Half)),
                          NumAdd(NumMul(from.z, Half), NumMul(to.z, Half))>>)
               ELSE LET ratioA == NumDiv(MathSin(AngleTimes(NumSub(One, t), halfTheta)),
                                         sinHalfTheta)
                        ratioB == NumDiv(MathSin(AngleTimes(t, halfTheta)), sinHalfTheta)
                    IN New(<<NumAdd(NumMul(from.w, ratioA), NumMul(to.w, ratioB)),
                             NumAdd(NumMul(from.x, ratioA), NumMul(to.x, ratioB)),
                             NumAdd(NumMul(from.y, ratioA), NumMul(to.y, ratioB)),
                             NumAdd(NumMul(from.z, ratioA), NumMul(to.z, ratioB))>>)

(* slerp's sqrt, acos and sin are exact on from, to and t *)
SlerpExact(from, to, t) ==
    LET c == Dot(from, to)
    IN IF NumGe(MathAbs(c), One) THEN TRUE
       ELSE IF ~OneMinusSquareHasSqrt(c) THEN FALSE
       ELSE IF NumLt(MathAbs(SqrtOneMinusSquare(c)), SinEpsilon) THEN TRUE
       ELSE /\ SinExact(AngleTimes(NumSub(One, t), MathAcos(c)))
            /\ SinExact(AngleTimes(t, MathAcos(c)))

(* a field matching only when closer than epsilon *)
FieldEquals_Strict(a, b, epsilon) == StrictEq(a, b) \/ NumLt(MathAbs(NumSub(a, b)), epsilon)

(* one field of equals: this.f === that.f || Math.abs( this.f - that.f ) <= epsilon *)
FieldEquals(a, b, epsilon) == StrictEq(a, b) \/ NumLe(MathAbs(NumSub(a, b)), epsilon)

equals(this, that, epsilon0) ==
    LET epsilon == IF epsilon0.t = "undefined" THEN Zero ELSE epsilon0
    IN /\ FieldEquals(this.x, that.x, epsilon)
       /\ FieldEquals(this.y, that.y, epsilon)
       /\ FieldEquals(this.z, that.z, epsilon)
       /\ FieldEquals(this.w, that.w, epsilon)

(* the sum of squares whose root is normalize's mag *)
SquaredMagnitude(this) ==
    NumAdd(NumAdd(NumAdd(NumMul(this.x, this.x), NumMul(this.y, this.y)),
                  NumMul(this.z, this.z)), NumMul(this.w, this.w))

(* normalize without its test of mag *)
normalize_Unguarded(this) ==
    LET mag == MathSqrt(SquaredMagnitude(this))
    IN New(<<NumDiv(this.w, mag), NumDiv(this.x, mag),
             NumDiv(this.y, mag), NumDiv(this.z, mag)>>)

normalize(this) ==
    LET mag == MathSqrt(SquaredMagnitude(this))
    IN IF ~StrictEq(mag, Zero)
       THEN New(<<NumDiv(this.w, mag), NumDiv(this.x, mag),
                  NumDiv(this.y, mag), NumDiv(this.z, mag)>>)
       ELSE New(<<>>)

(* this.x + ", " + this.y + ", " + this.z + ", " + this.w: the numbers joined *)
toString(this) == [t |-> "string", joined |-> <<this.x, this.y, this.z, this.w>>]

toArray(this) == [t |-> "array", elements |-> <<this.w, this.x, this.y, this.z>>]



----------------------------------------------------------------------------
(* The client: a heap of Quaternion objects, and the last call made *)

MaxHeap == 3
MaxConstructed == 1

NoCall == [op |-> "none", this |-> Undef, args |-> <<>>, ret |-> Undef, threw |-> FALSE]

Call(op, this, args, ret) ==
    [op |-> op, this |-> this, args |-> args, ret |-> ret, threw |-> FALSE]

(* return new Quaternion( ... ): the object is added to the heap h *)
Fresh(h, obj) == [heap |-> Append(h, obj), ret |-> Ref(Len(h) + 1)]

(* the quaternion of numerators w, x, y, z over the denominator d *)
Q(w, x, y, z, d) == New(<<Num(w, d), Num(x, d), Num(y, d), Num(z, d)>>)

(* the elements of an array literal, as the properties "0".."3" *)
ArrayOf(elements) ==
    Obj(TRUE, [k \in Keys |->
        CASE k = "0" /\ Len(elements) >= 1 -> elements[1]
          [] k = "1" /\ Len(elements) >= 2 -> elements[2]
          [] k = "2" /\ Len(elements) >= 3 -> elements[3]
          [] k = "3" /\ Len(elements) >= 4 -> elements[4]
          [] OTHER -> Undef])

(* an object literal { w: .., x: .., y: .., z: .. } that also carries the  *)
(* indexed elements of an array; undefined stands for an absent property   *)
RecordWith(w, x, y, z, elements) ==
    Obj(FALSE, [k \in Keys |->
        CASE k = "w" -> w
          [] k = "x" -> x
          [] k = "y" -> y
          [] k = "z" -> z
          [] OTHER -> ArrayOf(elements).props[k]])

RecordOf(w, x, y, z) == RecordWith(w, x, y, z, <<>>)

Three == Int2Num(3)
Five == Int2Num(5)
Seven == Int2Num(7)

Tuples(S, n) == [1..n -> S]

(* the argument lists the constructor is called with *)
CtorArgs ==
    {<<>>, <<Five>>, <<NaN>>, <<Undef>>, <<Null>>, <<One, Two>>, <<One, Two, Three>>,
     <<Zero, Zero, Zero, Zero>>, <<Zero, Three, Zero, Three>>}
    \cup Tuples({Undef, Three}, 4)
    \cup {<<ArrayOf(a)>> : a \in UNION {Tuples({Zero, Seven}, n) : n \in 0..4}}
    \cup {<<ArrayOf(<<One, NaN, Zero, Seven>>)>>}
    \cup {<<RecordOf(r[1], r[2], r[3], r[4])>> : r \in Tuples({Undef, Zero, Five}, 4)}
    \cup {<<RecordWith(r[1], r[2], r[3], r[4], <<Seven, Seven, Zero, Seven>>)>> :
             r \in {<<Five, Zero, Five, Undef>>, <<Zero, Zero, Zero, Zero>>,
                    <<Undef, Five, Zero, Five>>}}

(* new Quaternion( ...args ) *)
Construct(args) ==
    /\ Len(heap) < MaxConstructed
    /\ LET r == Quaternion(args)
       IN IF r.threw
          THEN /\ heap' = heap
               /\ last' = [op |-> "new", this |-> Undef, args |-> args, ret |-> Undef,
                           threw |-> TRUE]
          ELSE /\ heap' = Fresh(heap, r.obj).heap
               /\ last' = Call("new", Undef, args, Fresh(heap, r.obj).ret)

Identity ==
    /\ Len(heap) < MaxHeap
    /\ heap' = Fresh(heap, identity).heap
    /\ last' = Call("identity", Undef, <<>>, Fresh(heap, identity).ret)

Mult(i, j) ==
    /\ Len(heap) < MaxHeap
    /\ LET r == Fresh(heap, mult(heap[i], heap[j]))
       IN /\ heap' = r.heap
          /\ last' = Call("mult", Ref(i), <<Ref(j)>>, r.ret)

MultArray(i, array) ==
    /\ Len(heap) < MaxHeap
    /\ LET r == Fresh(heap, mult(heap[i], array))
       IN /\ heap' = r.heap
          /\ last' = Call("mult", Ref(i), <<array>>, r.ret)

Rotate(i, v) ==
    /\ heap' = heap
    /\ last' = Call("rotate", Ref(i), <<v>>, rotate(heap[i], v))

Matrix(i) ==
    /\ heap' = heap
    /\ last' = Call("matrix", Ref(i), <<>>, matrix(heap[i]))

(* slerp returning from itself where from and to are equal or antipodal *)
slerpCall_ReturnsFrom(h, from, to, t) ==
    IF NumGe(MathAbs(Dot(h[from.id], h[to.id])), One)
    THEN [heap |-> h, ret |-> from]
    ELSE Fresh(h, slerp(h[from.id], h[to.id], t))

(* Quaternion.slerp( from, to, t ) on the heap h *)
slerpCall(h, from, to, t) == Fresh(h, slerp(h[from.id], h[to.id], t))

Slerp(i, j, t) ==
    /\ Len(heap) < MaxHeap
    /\ SlerpExact(heap[i], heap[j], t)
    /\ LET r == slerpCall(heap, Ref(i), Ref(j), t)
       IN /\ heap' = r.heap
          /\ last' = Call("slerp", Undef, <<Ref(i), Ref(j), t>>, r.ret)

Equals(i, j, epsilon) ==
    /\ heap' = heap
    /\ last' = Call("equals", Ref(i), <<Ref(j), epsilon>>,
                    Bool(equals(heap[i], heap[j], epsilon)))

Normalize(i) ==
    /\ Len(heap) < MaxHeap
    /\ HasSqrt(SquaredMagnitude(heap[i]))
    /\ LET r == Fresh(heap, normalize(heap[i]))
       IN /\ heap' = r.heap
          /\ last' = Call("normalize", Ref(i), <<>>, r.ret)

Conjugate(i) ==
    /\ Len(heap) < MaxHeap
    /\ LET r == Fresh(heap, conjugate(heap[i]))
       IN /\ heap' = r.heap
          /\ last' = Call("conjugate", Ref(i), <<>>, r.ret)

Inverse(i) ==
    /\ Len(heap) < MaxHeap
    /\ LET r == Fresh(heap, inverse(heap[i]))
       IN /\ heap' = r.heap
          /\ last' = Call("inverse", Ref(i), <<>>, r.ret)

ToString(i) ==
    /\ heap' = heap
    /\ last' = Call("toString", Ref(i), <<>>, toString(heap[i]))

ToArray(i) ==
    /\ heap' = heap
    /\ last' = Call("toArray", Ref(i), <<>>, toArray(heap[i]))

----------------------------------------------------------------------------
(* Quaternions the client starts from *)

QI == Q(1, 0, 0, 0, 1)
QJ == Q(0, 1, 0, 0, 1)
QK == Q(0, 0, 1, 0, 1)
QH == Q(1, 1, 1, 1, 2)
QP == Q(3, 4, 0, 0, 5)
QR == Q(0, 0, 3, 4, 5)
QS == Q(7, 24, 0, 0, 25)
QZero == Q(0, 0, 0, 0, 1)
QN == Q(1, 2, 2, 4, 1)
QM == Q(0, 3, 0, 4, 1)

(* two unit quaternions 0.001 radians apart, about: their dot product is   *)
(* 4008003/4008005, and the sine of the angle between them 4004/4008005    *)
QA == New(<<Num(-645, 1037), Num(812, 1037), Zero, Zero>>)
QB == New(<<Num(-2407, 3865), Num(3024, 3865), Zero, Zero>>)

Negated(q) == New(<<NumNeg(q.w), NumNeg(q.x), NumNeg(q.y), NumNeg(q.z)>>)

InitHeaps ==
    {<<QH, QJ>>, <<QI, QP>>, <<QZero, QN>>, <<QK, Negated(QK)>>, <<QP, QR>>, <<QM, QI>>}

RotateVecs == {Vec3(One, Zero, Zero), Vec3(One, Two, Three)}
MultArrays == {ArrayOf(<<One, Zero, Zero, Zero>>)}
Epsilons == {Half}
Ts == {Zero, One}

Init ==
    /\ heap \in InitHeaps
    /\ last = NoCall

Next ==
    \/ Identity
    \/ \E i, j \in DOMAIN heap : Mult(i, j)
    \/ \E i \in DOMAIN heap, a \in MultArrays : MultArray(i, a)
    \/ \E i \in DOMAIN heap, v \in RotateVecs : Rotate(i, v)
    \/ \E i \in DOMAIN heap : Matrix(i)
    \/ \E i, j \in DOMAIN heap, t \in Ts : Slerp(i, j, t)
    \/ \E i, j \in DOMAIN heap, e \in Epsilons : Equals(i, j, e)
    \/ \E i \in DOMAIN heap : Normalize(i)
    \/ \E i \in DOMAIN heap : Conjugate(i)
    \/ \E i \in DOMAIN heap : Inverse(i)
    \/ \E i \in DOMAIN heap : ToString(i)
    \/ \E i \in DOMAIN heap : ToArray(i)

Spec == Init /\ [][Next]_vars

(* the constructor alone, on every shape of argument list *)
InitCtor ==
    /\ heap = <<>>
    /\ last = NoCall

NextCtor ==
    \/ \E args \in CtorArgs : Construct(args)
    \/ \E i \in DOMAIN heap : ToArray(i)

SpecCtor == InitCtor /\ [][NextCtor]_vars

(* slerp alone, between unit quaternions *)
SlerpUnits == {QI, QJ, QP, QR, QS, QH, QA, QB, Negated(QB)}
SlerpTs == {Zero, Half, One}

InitSlerp ==
    /\ heap \in {<<a, b>> : a, b \in SlerpUnits}
    /\ last = NoCall

NextSlerp == \E t \in SlerpTs : Slerp(1, 2, t)

SpecSlerp == InitSlerp /\ [][NextSlerp]_vars

(* equals alone *)
EqualsSamples ==
    {QI, Q(10001, 0, 0, 0, 10000), Q(2, 0, 0, 0, 1), Q(1, 1, 0, 0, 2), Q(1, 0, 0, 1, 2),
     Q(1, 0, 1000, 0, 1), QZero, Q(2, -1, 0, 0, 2)}
EqualsEpsilons == {Undef, Zero, Num(1, 1000), Half, One, Int2Num(-1)}

InitEquals ==
    /\ heap \in {<<a, b>> : a, b \in EqualsSamples}
    /\ last = NoCall

NextEquals == \E i, j \in DOMAIN heap, e \in EqualsEpsilons : Equals(i, j, e)

SpecEquals == InitEquals /\ [][NextEquals]_vars

----------------------------------------------------------------------------
(* Properties *)

QFields == {"w", "x", "y", "z"}

(* the receiver, a quaternion argument and the result of the last call *)
This == heap[last.this.id]
Arg(k) == heap[last.args[k].id]
Result == heap[last.ret.id]

IsUnit(q) == SquaredMagnitude(q) = One

(* M * v for the nine numbers of M read row by row, v a column vector *)
MatTimesVec(data, v) ==
    Vec3(NumAdd(NumAdd(NumMul(data[1], v.x), NumMul(data[2], v.y)), NumMul(data[3], v.z)),
         NumAdd(NumAdd(NumMul(data[4], v.x), NumMul(data[5], v.y)), NumMul(data[6], v.z)),
         NumAdd(NumAdd(NumMul(data[7], v.x), NumMul(data[8], v.y)), NumMul(data[9], v.z)))

(* C1: for a unit quaternion q, the nine numbers of q.matrix(), read as a   *)
(* row-major matrix and applied to a column vector v, give q.rotate(v).     *)
C1_MatrixIsRowMajorRotation ==
    (last.op = "matrix" /\ IsUnit(This)) =>
        \A v \in RotateVecs : MatTimesVec(last.ret.data, v) = rotate(This, v)

(* C2: the constructor never throws and never leaves one of w, x, y, z      *)
(* undefined, whatever the number and the shape of its arguments.           *)
C2_ConstructionIsTotal ==
    last.op = "new" =>
        /\ ~last.threw
        /\ \A f \in QFields : Result[f].t # "undefined"

IsRecordArg == Len(last.args) = 1 /\ last.args[1].t = "object" /\ ~last.args[1].array

ElementKey(f) == CASE f = "w" -> "0" [] f = "x" -> "1" [] f = "y" -> "2" [] f = "z" -> "3"

DefaultOf(f) == IF f = "w" THEN One ELSE Zero

(* C3: constructed from one record, each of w, x, y, z present on the       *)
(* record is copied, a 0 included and whatever indexed elements the record  *)
(* carries, and each absent field takes its default.                        *)
C3_RecordFieldsCopied ==
    (last.op = "new" /\ IsRecordArg) =>
        /\ ~last.threw
        /\ \A f \in QFields :
              LET given == last.args[1].props[f]
              IN IF given.t # "undefined" THEN Result[f] = given
                 ELSE last.args[1].props[ElementKey(f)].t = "undefined"
                          => Result[f] = DefaultOf(f)

(* an array literal of finite numbers: elements 0..n-1 and nothing else *)
IsNumArrayArg ==
    /\ Len(last.args) = 1
    /\ InstanceofArray(last.args[1])
    /\ \A f \in QFields : last.args[1].props[f].t = "undefined"
    /\ \A k \in {"0", "1", "2", "3"} : last.args[1].props[k].t \in {"num", "undefined"}

(* C4: constructed from one array of 0 to 4 numbers, w is element 0 if      *)
(* present, else 1, and x, y, z are elements 1, 2, 3 if present, else 0,    *)
(* each on its own; so toArray() gives back a 4-element array, zeros        *)
(* included, element for element in the order w, x, y, z.                   *)
C4_ArrayConstruction ==
    (last.op = "new" /\ IsNumArrayArg) =>
        /\ ~last.threw
        /\ \A f \in QFields :
              LET element == last.args[1].props[ElementKey(f)]
              IN Result[f] = IF element.t # "undefined" THEN element ELSE DefaultOf(f)
        /\ (\A k \in {"0", "1", "2", "3"} : last.args[1].props[k].t = "num") =>
              toArray(Result).elements =
                  <<last.args[1].props["0"], last.args[1].props["1"],
                    last.args[1].props["2"], last.args[1].props["3"]>>

C4_Witness ==
    /\ last.op = "new"
    /\ IsNumArrayArg
    /\ last.args[1] = ArrayOf(<<Zero, Seven, Zero, Seven>>)
    /\ toArray(Result).elements = <<Zero, Seven, Zero, Seven>>

(* the quaternion operand of the last mult *)
MultOperand == IF last.args[1].t = "ref" THEN Arg(1) ELSE AsQuaternion(last.args[1])

(* C5: rotating v by a.mult(b) is rotating v by b, then the result by a.    *)
C5_CompositionOrder ==
    last.op = "mult" =>
        \A v \in RotateVecs :
            rotate(Result, v) = rotate(This, rotate(MultOperand, v))

(* a product that does not commute, of rotations that move the vectors *)
C5_Witness ==
    /\ last.op = "mult"
    /\ IsUnit(This) /\ IsUnit(MultOperand)
    /\ mult(This, MultOperand) # mult(MultOperand, This)
    /\ \A v \in RotateVecs :
          /\ rotate(MultOperand, v) # v
          /\ rotate(Result, v) # rotate(MultOperand, v)

(* C6: (1,0,0,0) is a left and a right identity of mult, field for field,   *)
(* also when it is passed to mult as the array [1,0,0,0].                   *)
C6_Identity ==
    last.op = "mult" =>
        /\ This = identity => Result = MultOperand
        /\ MultOperand = identity => Result = This

C6_Witness ==
    /\ last.op = "mult"
    /\ last.args[1] = ArrayOf(<<One, Zero, Zero, Zero>>)
    /\ This = QH
    /\ Result = QH

(* C7: no call changes a field of an object of the heap, and every          *)
(* quaternion a call returns is a new object.                               *)
C7_NoMutationFreshResults ==
    [][/\ \A i \in DOMAIN heap : i \in DOMAIN heap' /\ heap'[i] = heap[i]
       /\ last'.ret.t = "ref" =>
             (last'.ret.id \notin DOMAIN heap /\ last'.ret.id \in DOMAIN heap')]_vars

(* slerp's early return: a new object with the fields of from *)
C7_Witness ==
    /\ last.op = "slerp"
    /\ NumGe(MathAbs(Dot(Arg(1), Arg(2))), One)
    /\ last.ret.id \notin {last.args[1].id, last.args[2].id}
    /\ Result = Arg(1)

(* the tolerance of the comparisons "within tolerance": the 0.001 of the    *)
(* example of equals                                                        *)
Tolerance == Num(1, 1000)

(* C8: for unit quaternions a, b with |dot(a,b)| < 1, slerp(a, b, 0) is a   *)
(* and slerp(a, b, 1) is b, within tolerance, on every branch of slerp.     *)
C8_SlerpBoundary ==
    (/\ last.op = "slerp"
     /\ IsUnit(Arg(1)) /\ IsUnit(Arg(2))
     /\ NumLt(MathAbs(Dot(Arg(1), Arg(2))), One)
     /\ last.args[3] \in {Zero, One}) =>
        equals(Result, IF last.args[3] = Zero THEN Arg(1) ELSE Arg(2), Tolerance)

(* C9: normalize() of a quaternion of magnitude 0 is (1,0,0,0), with no     *)
(* division by zero; of any other, each field divided by the magnitude.     *)
C9_NormalizeTotal ==
    last.op = "normalize" =>
        LET mag == MathSqrt(SquaredMagnitude(This))
        IN IF mag = Zero THEN Result = Fields(One, Zero, Zero, Zero)
           ELSE \A f \in QFields :
                    /\ IsNum(Result[f])
                    /\ NumMul(Result[f], mag) = This[f]

C9_Witness ==
    /\ last.op = "normalize"
    /\ This = QZero
    /\ Result = Fields(One, Zero, Zero, Zero)

(* |a - b| *)
Distance(a, b) == MathAbs(NumSub(a, b))

(* C10: a.equals(b, epsilon) is true exactly when each of w, x, y, z is     *)
(* equal in a and b or differs by at most epsilon, epsilon being 0 when     *)
(* omitted; it is reflexive and symmetric; (1,0,0,0) equals (1.0001,0,0,0)  *)
(* with epsilon 0.001 and not with epsilon 0.                               *)
C10_Equals ==
    last.op = "equals" =>
        LET a == This
            b == Arg(1)
            epsilon == IF last.args[2].t = "undefined" THEN Zero ELSE last.args[2]
        IN /\ last.ret.b <=>
                 \A f \in QFields : a[f] = b[f] \/ NumLe(Distance(a[f], b[f]), epsilon)
           /\ last.ret.b = equals(b, a, last.args[2])
           /\ a = b => last.ret.b
           /\ (a = QI /\ b = Q(10001, 0, 0, 0, 10000)) =>
                 /\ epsilon = Num(1, 1000) => last.ret.b
                 /\ epsilon = Zero => ~last.ret.b

C10_Witness ==
    /\ last.op = "equals"
    /\ This = QI
    /\ Arg(1) = Q(10001, 0, 0, 0, 10000)
    /\ last.args[2] = Num(1, 1000)
    /\ last.ret.b


============================================================================
